---- MODULE Spec2Model ----
(***************************************************************************)
(* GRRLIB_ttf.c: TrueType text for GRRLIB.  The module keeps one FreeType  *)
(* library instance, wraps each face in a malloc'ed GRRLIB_ttfFont, and    *)
(* prints (or only measures) a text by loading each glyph and sending its  *)
(* bitmap to GX one point per pixel.                                       *)
(*                                                                         *)
(* FreeType, GX, malloc and mbstowcs are external: they are modelled by    *)
(* what the code asks of them.  A font file is a small table of glyphs;    *)
(* the tables are chosen so that every shape the code branches on occurs   *)
(* (negative bearings, kerning, a glyph that fails to load, a bitmap font  *)
(* that refuses a pixel size).                                             *)
(***************************************************************************)
EXTENDS Integers, Sequences, FiniteSets

(* ------------------------------ bounds -------------------------------- *)

\* Faces the FreeType library instance can hold before it is out of memory.
MaxFaces == 2
\* GRRLIB_ttfFont wrappers the heap can hold before malloc returns NULL.
MaxHandles == 2

(* ------------------------- program constants -------------------------- *)

NULL == 0
\* FT_Set_Pixel_Sizes(Face, 0, 12): the size tried when fontSize is refused.
DefaultPixelSize == 12
\* 0xFF in "0xFF - cA".
OpaqueAlpha == 255

(* ----------------------------- integers ------------------------------- *)

\* v >> 6 on a signed 26.6 fixed-point value: an arithmetic shift, which
\* rounds towards minus infinity.
ShiftRight6(v) == v \div 64

\* (u8)v: the low eight bits.
ToU8(v) == v % 256

\* (u32)v for an int v, kept as its two 16-bit halves.
ToU32(v) == [hi |-> (v \div 65536) % 65536, lo |-> v % 65536]

\* R(color), G(color), B(color), A(color): a colour is 0xRRGGBBAA, kept as
\* its four bytes.
R(color) == color[1]
G(color) == color[2]
B(color) == color[3]
A(color) == color[4]

(* --------------------------- the font files --------------------------- *)

\* The buffers a caller may hand to GRRLIB_LoadTTF.  "junk" is not a font;
\* "serif" is a scalable font with a kerning table; "fixed" is a bitmap font
\* with one strike of DefaultPixelSize pixels; "tiny" is a bitmap font with
\* one strike of 3 pixels.
FontFiles == {"junk", "serif", "fixed", "tiny"}

IsFont(file) == file # "junk"

\* FT_HAS_KERNING(Face)
FT_HAS_KERNING(file) == file = "serif"

\* The pixel sizes a face accepts: any for a scalable font, its strikes for
\* a bitmap font.
AcceptsSize(file, size) ==
    CASE file = "serif" -> TRUE
      [] file = "fixed" -> size = DefaultPixelSize
      [] file = "tiny"  -> size = 3
      [] OTHER          -> FALSE

\* An FT_Bitmap: rows lines of width coverage bytes, packed in buffer.
Bitmap(width, rows, buffer) ==
    [width |-> width, rows |-> rows, buffer |-> buffer]

Slot(err, bitmap, left, top, advance) ==
    [err |-> err, bitmap |-> bitmap, bitmap_left |-> left, bitmap_top |-> top,
     advance_x |-> advance]

NoGlyph == Slot(1, Bitmap(0, 0, <<>>), 0, 0, 0)

\* The character codes of the texts: 'A', 'V' and 'j'.
Chars == {65, 86, 106}

\* FT_Get_Char_Index: the glyph of a character code, 0 when the face has
\* none (glyph 0 is the "missing glyph" box and loads like any other).
FT_Get_Char_Index(face, c) ==
    CASE c = 65  -> 1
      [] c = 86  -> IF face.file = "serif" THEN 2 ELSE 0
      [] c = 106 -> 3
      [] OTHER   -> 0

\* FT_Get_Kerning(face, left, right, FT_KERNING_DEFAULT, &delta): delta.x in
\* 26.6 pixels.
FT_Get_Kerning(face, left, right) ==
    CASE face.file = "serif" /\ left = 1 /\ right = 2 -> -70
      [] face.file = "serif" /\ left = 2 /\ right = 1 -> -64
      [] face.file = "serif" /\ left = 2 /\ right = 2 -> 40
      [] face.file = "serif" /\ left = 2 /\ right = 3 -> -200
      [] OTHER -> 0

\* FT_Load_Glyph(face, glyphIndex, FT_LOAD_RENDER): the glyph slot after the
\* call, at the face's current pixel size.  It fails while no size is set,
\* and for glyph 3 of "serif", whose outline is damaged.
FT_Load_Glyph(face, g) ==
    LET s == face.size IN
    CASE s = 0 -> NoGlyph
      [] face.file = "serif" /\ g = 0 ->
            Slot(0, Bitmap(1, 1, <<255>>), 0, s, 64 * s)
      [] face.file = "serif" /\ g = 1 ->
            Slot(0, Bitmap(2, 1, <<255, 128>>), 0, s, 64 * s + 32)
      [] face.file = "serif" /\ g = 2 ->
            Slot(0, Bitmap(1, 2, <<64, 255>>), -1, s + 1, 64 * s - 1)
      [] face.file = "serif" /\ g = 3 -> NoGlyph
      [] face.file = "fixed" /\ g = 0 ->
            Slot(0, Bitmap(0, 0, <<>>), 0, 0, 64)
      [] face.file = "fixed" /\ g = 1 ->
            Slot(0, Bitmap(1, 1, <<200>>), 1, 1, 128)
      [] face.file = "fixed" /\ g = 3 ->
            Slot(0, Bitmap(1, 2, <<1, 254>>), 0, 2, 0)
      [] face.file = "tiny" /\ g = 1 ->
            Slot(0, Bitmap(1, 1, <<255>>), 0, 3, 192)
      [] face.file = "tiny" /\ g = 3 ->
            Slot(0, Bitmap(1, 1, <<90>>), -2, 1, 63)
      [] OTHER -> NoGlyph

\* FT_Set_Pixel_Sizes(face, 0, size): the error code and the face after the
\* call; a refused size leaves the face at the size it had.
FT_Set_Pixel_Sizes(face, size) ==
    IF AcceptsSize(face.file, size)
    THEN [err |-> 0, face |-> [face EXCEPT !.size = size]]
    ELSE [err |-> 1, face |-> face]

(* ------------------------------- state -------------------------------- *)

VARIABLES
    ftLibrary,  \* the FreeType library instance: its faces, by face id
    heap,       \* the GRRLIB_ttfFont wrappers malloc holds, by address
    status,     \* "running", or "crashed" once a null pointer was written
    last,       \* the last call made to the module, with its arguments
    retPtr,     \* the GRRLIB_ttfFont* it returned (NULL when it returns none)
    retU32,     \* the u32 it returned (0 when it returns none)
    gx,         \* the points it sent to GX, in order
    calls       \* the calls it made to FreeType's face API, malloc and free

vars == <<ftLibrary, heap, status, last, retPtr, retU32, gx, calls>>

FaceIds == 1..MaxFaces
Handles == 1..MaxHandles

NoFace == [live |-> FALSE, file |-> "", size |-> 0]
NoWrapper == [live |-> FALSE, face |-> NULL, kerning |-> FALSE]

Call(fn, arg) == [fn |-> fn, arg |-> arg]

LiveFaces == {f \in FaceIds : ftLibrary[f].live}
LiveHandles == {h \in Handles : heap[h].live}

(* ----------------------------- DrawBitmap ----------------------------- *)

\* PixelAlpha without "if (alpha < 0) alpha = 0".
PixelAlphaUnclamped(bitmap, p, q, cA) ==
    bitmap.buffer[q * bitmap.width + p + 1] - (OpaqueAlpha - cA)

\* s16 alpha = bitmap->buffer[q * bitmap->width + p] - (0xFF - cA);
\* if (alpha < 0) alpha = 0;
PixelAlpha(bitmap, p, q, cA) ==
    LET alpha == bitmap.buffer[q * bitmap.width + p + 1] - (OpaqueAlpha - cA)
    IN  IF alpha < 0 THEN 0 ELSE alpha

\* GX_Begin(GX_POINTS, GX_VTXFMT0, 1); GX_Position3f32(i, j, 0);
\* GX_Color4u8(cR, cG, cB, alpha); GX_End();
Point(i, j, cR, cG, cB, alpha) ==
    [x |-> i, y |-> j, z |-> 0, r |-> cR, g |-> cG, b |-> cB, a |-> ToU8(alpha)]

\* for (j = top, q = 0; j < y_max; j++, q++)
RECURSIVE DrawColumn(_, _, _, _, _, _, _, _, _, _)
DrawColumn(bitmap, i, p, j, q, y_max, cR, cG, cB, cA) ==
    IF j < y_max
    THEN <<Point(i, j, cR, cG, cB, PixelAlpha(bitmap, p, q, cA))>>
         \o DrawColumn(bitmap, i, p, j + 1, q + 1, y_max, cR, cG, cB, cA)
    ELSE <<>>

\* for (i = offset, p = 0; i < x_max; i++, p++)
RECURSIVE DrawColumns(_, _, _, _, _, _, _, _, _, _)
DrawColumns(bitmap, i, p, x_max, top, y_max, cR, cG, cB, cA) ==
    IF i < x_max
    THEN DrawColumn(bitmap, i, p, top, 0, y_max, cR, cG, cB, cA)
         \o DrawColumns(bitmap, i + 1, p + 1, x_max, top, y_max, cR, cG, cB, cA)
    ELSE <<>>

\* The points DrawBitmap sends to GX.
DrawBitmap(bitmap, offset, top, cR, cG, cB, cA) ==
    LET x_max == offset + bitmap.width
        y_max == top + bitmap.rows
    IN  DrawColumns(bitmap, offset, 0, x_max, top, y_max, cR, cG, cB, cA)

(* ------------------------------ strings ------------------------------- *)

\* A string argument: a null pointer, or the characters before the
\* terminating zero.
NullStr == [null |-> TRUE, chars |-> <<>>]
Str(chars) == [null |-> FALSE, chars |-> chars]

\* The wide texts handed to GRRLIB_PrintfTTFW and GRRLIB_WidthTTFW: none,
\* the empty one, "A", "V", "AV" (kerned apart in "serif"), "VA", "jA" (a
\* glyph that does not load, first), "Vj" (and last) and "VVA".
WideTexts ==
    {NullStr, Str(<<>>), Str(<<65>>), Str(<<86>>), Str(<<65, 86>>), Str(<<86, 65>>),
     Str(<<106, 65>>), Str(<<86, 106>>), Str(<<86, 86, 65>>)}

\* The byte strings handed to GRRLIB_PrintfTTF and GRRLIB_WidthTTF: the
\* same, and two that hold a byte (200) that is no character of the "C"
\* locale.
ByteTexts == WideTexts \cup {Str(<<200>>), Str(<<65, 200>>)}

\* mbstowcs(dest, string, n) in the "C" locale: the number of wide
\* characters, one per byte, or (size_t)-1 when a byte is no character.
Mbstowcs(string) ==
    IF \E k \in 1..Len(string.chars) : string.chars[k] > 127
    THEN [len |-> -1, wide |-> Str(<<>>)]
    ELSE [len |-> Len(string.chars), wide |-> Str(string.chars)]

(* ------------------------ printing and measuring ---------------------- *)

\* A GRRLIB_ttfFont* argument with what it points to: the wrapper's kerning
\* flag and the state of its face.
NullFont == [null |-> TRUE, kerning |-> FALSE, face |-> NoFace]
Font(myFont) ==
    IF myFont = NULL THEN NullFont
    ELSE [null |-> FALSE, kerning |-> heap[myFont].kerning,
          face |-> ftLibrary[heap[myFont].face]]

\* What a call leaves behind: the value returned, the points sent to GX and
\* the face (its pixel size may have changed).
Printed(ret, points, face) == [ret |-> ret, gx |-> points, face |-> face]

\* GlyphStep with the pen's advance moved inside "if (!noprint)".
GlyphStepAdvanceWhenDrawn(slot, penX, penY, x, y, color, noprint) ==
    [penX   |-> IF ~noprint THEN penX + ShiftRight6(slot.advance_x) ELSE penX,
     points |-> IF ~noprint
                THEN DrawBitmap(slot.bitmap, penX + slot.bitmap_left + x,
                                penY - slot.bitmap_top + y,
                                R(color), G(color), B(color), A(color))
                ELSE <<>>]

\* The end of the loop's body, for a glyph that loaded:
\*   if (!noprint) DrawBitmap(&slot->bitmap, penX + slot->bitmap_left + x,
\*                            penY - slot->bitmap_top + y, cR, cG, cB, cA);
\*   penX += slot->advance.x >> 6;
GlyphStep(slot, penX, penY, x, y, color, noprint) ==
    [penX   |-> penX + ShiftRight6(slot.advance_x),
     points |-> IF ~noprint
                THEN DrawBitmap(slot.bitmap, penX + slot.bitmap_left + x,
                                penY - slot.bitmap_top + y,
                                R(color), G(color), B(color), A(color))
                ELSE <<>>]

\* while (*utf32) { ... }: the pen position and the points once the
\* characters from position k on are done.
RECURSIVE PrintLoop(_, _, _, _, _, _, _, _, _, _, _, _)
PrintLoop(font, chars, k, penX, penY, previousGlyph, x, y, color, noprint, face, points) ==
    IF k > Len(chars) THEN [penX |-> penX, points |-> points]
    ELSE
      LET glyphIndex == FT_Get_Char_Index(face, chars[k])
          kerned == IF font.kerning /\ previousGlyph # 0 /\ glyphIndex # 0
                    THEN penX + ShiftRight6(FT_Get_Kerning(face, previousGlyph, glyphIndex))
                    ELSE penX
          slot == FT_Load_Glyph(face, glyphIndex)
          step == GlyphStep(slot, kerned, penY, x, y, color, noprint)
      IN  IF slot.err # 0
          THEN PrintLoop(font, chars, k + 1, kerned, penY, previousGlyph,
                         x, y, color, noprint, face, points)
          ELSE PrintLoop(font, chars, k + 1, step.penX, penY, glyphIndex,
                         x, y, color, noprint, face, points \o step.points)

\* _PrintfTTFW: common code for GRRLIB_PrintfTTFW() and GRRLIB_WidthTTFW()
_PrintfTTFW(x, y, font, utf32, fontSize, color, noprint) ==
    IF font.null \/ utf32.null THEN Printed(ToU32(0), <<>>, font.face)
    ELSE
      LET first == FT_Set_Pixel_Sizes(font.face, fontSize)
          Face == IF first.err # 0
                  THEN FT_Set_Pixel_Sizes(first.face, DefaultPixelSize).face
                  ELSE first.face
          done == PrintLoop(font, utf32.chars, 1, 0, fontSize, 0, x, y, color,
                            noprint, Face, <<>>)
      IN  Printed(ToU32(done.penX), done.points, Face)

\* _PrintfTTF: common code for GRRLIB_PrintfTTF() and GRRLIB_WidthTTF()
_PrintfTTF(x, y, font, string, fontSize, color, noprint) ==
    IF font.null \/ string.null THEN Printed(ToU32(0), <<>>, font.face)
    ELSE
      LET length == Mbstowcs(string)
      IN  IF length.len = -1 THEN Printed(ToU32(0), <<>>, font.face)
          ELSE IF length.len > 0
               THEN _PrintfTTFW(x, y, font, length.wide, fontSize, color, noprint)
               ELSE Printed(ToU32(0), <<>>, font.face)

\* The colour GRRLIB_WidthTTFW and GRRLIB_WidthTTF pass: 0x00000000.
NoColor == <<0, 0, 0, 0>>

PrintfTTFW(x, y, font, utf32, fontSize, color) ==
    _PrintfTTFW(x, y, font, utf32, fontSize, color, FALSE)

\* GRRLIB_WidthTTFW passing false for noprint.
WidthTTFWDraws(font, utf32, fontSize) ==
    _PrintfTTFW(0, 0, font, utf32, fontSize, NoColor, FALSE)

WidthTTFW(font, utf32, fontSize) ==
    _PrintfTTFW(0, 0, font, utf32, fontSize, NoColor, TRUE)

PrintfTTF(x, y, font, string, fontSize, color) ==
    _PrintfTTF(x, y, font, string, fontSize, color, FALSE)

WidthTTF(font, string, fontSize) ==
    _PrintfTTF(0, 0, font, string, fontSize, NoColor, TRUE)

(* ------------------------------- inputs ------------------------------- *)

\* The corners (x, y) a text is printed at.
Origins == {<<0, 0>>, <<4, -2>>}
\* "serif" takes both sizes, "fixed" only the second, "tiny" only the first.
FontSizes == {3, DefaultPixelSize}
\* Opaque red, and a translucent blue.
Colors == {<<255, 0, 0, 255>>, <<0, 128, 255, 100>>}

\* The bitmaps, positions and colour bytes DrawBitmap is tried on by itself.
Bitmaps ==
    {Bitmap(0, 0, <<>>), Bitmap(0, 2, <<>>), Bitmap(2, 0, <<>>),
     Bitmap(1, 1, <<255>>), Bitmap(2, 1, <<0, 128>>), Bitmap(1, 2, <<64, 255>>),
     Bitmap(2, 2, <<1, 100, 200, 254>>), Bitmap(3, 2, <<10, 20, 30, 40, 50, 60>>)}
Offsets == {-2, 0, 5}
Tops == {-1, 3}
DrawColors == Colors \cup {<<9, 9, 9, 0>>}

(* ------------------------------- Init --------------------------------- *)

\* The state once GRRLIB_InitTTF has returned 0: a library instance without
\* faces, and no wrapper allocated.
Init ==
    /\ ftLibrary = [f \in FaceIds |-> NoFace]
    /\ heap = [h \in Handles |-> NoWrapper]
    /\ status = "running"
    /\ last = [op |-> "InitTTF"]
    /\ retPtr = NULL
    /\ retU32 = ToU32(0)
    /\ gx = <<>>
    /\ calls = <<>>

(* --------------------------- GRRLIB_LoadTTF --------------------------- *)

\* FT_New_Memory_Face(ftLibrary, file_base, file_size, 0, &Face): the error
\* codes it may return.  It fails on what is no font and when the library
\* is out of memory, and may fail on a font.
NewFaceErrors(file_base) ==
    IF IsFont(file_base) /\ LiveFaces # FaceIds THEN {0, 1} ELSE {1}

\* The face a successful FT_New_Memory_Face creates.
NewFaceId == CHOOSE f \in FaceIds \ LiveFaces : \A g \in FaceIds \ LiveFaces : f <= g

\* malloc(sizeof(GRRLIB_ttfFont)): the addresses it may return.  It returns
\* NULL when the heap is full, and may do so at any time.
MallocResults ==
    IF LiveHandles = Handles THEN {NULL}
    ELSE {NULL, CHOOSE h \in Handles \ LiveHandles :
                    \A g \in Handles \ LiveHandles : h <= g}

\* myFont->kerning = FT_HAS_KERNING(Face); myFont->face = Face;
NewWrapper(file_base, Face) ==
    [live |-> TRUE, face |-> Face, kerning |-> FT_HAS_KERNING(file_base)]

GRRLIB_LoadTTF(file_base) ==
    /\ status = "running"
    /\ last' = [op |-> "LoadTTF", file_base |-> file_base]
    /\ retU32' = ToU32(0)
    /\ gx' = <<>>
    /\ \E err \in NewFaceErrors(file_base) :
         IF err # 0
         THEN \* return NULL;
              /\ calls' = <<Call("FT_New_Memory_Face", NULL)>>
              /\ retPtr' = NULL
              /\ UNCHANGED <<ftLibrary, heap, status>>
         ELSE LET Face == NewFaceId IN
              /\ ftLibrary' = [ftLibrary EXCEPT ![Face] =
                                 [live |-> TRUE, file |-> file_base, size |-> 0]]
              /\ \E myFont \in MallocResults :
                   /\ calls' = <<Call("FT_New_Memory_Face", Face), Call("malloc", myFont)>>
                   /\ IF myFont # NULL
                      THEN /\ heap' = [heap EXCEPT ![myFont] = NewWrapper(file_base, Face)]
                           /\ retPtr' = myFont
                           /\ UNCHANGED status
                      ELSE \* myFont->kerning = ... writes through a null
                           \* pointer, which is undefined: the write traps,
                           \* or it lands in low memory and the NULL is
                           \* returned.
                           \/ /\ status' = "crashed"
                              /\ retPtr' = NULL
                              /\ UNCHANGED heap
                           \/ /\ retPtr' = NULL
                              /\ UNCHANGED <<heap, status>>

(* --------------------------- GRRLIB_FreeTTF --------------------------- *)

\* ReleaseFont without FT_Done_Face: the wrapper goes, the face stays.
ReleaseFontKeepsFace(myFont) ==
    /\ heap' = [heap EXCEPT ![myFont] = NoWrapper]
    /\ calls' = <<Call("free", myFont)>>
    /\ UNCHANGED ftLibrary

\* FT_Done_Face(myFont->face); free(myFont);
ReleaseFont(myFont) ==
    /\ ftLibrary' = [ftLibrary EXCEPT ![heap[myFont].face] = NoFace]
    /\ heap' = [heap EXCEPT ![myFont] = NoWrapper]
    /\ calls' = <<Call("FT_Done_Face", heap[myFont].face), Call("free", myFont)>>

GRRLIB_FreeTTF(myFont) ==
    /\ status = "running"
    /\ last' = [op |-> "FreeTTF", myFont |-> myFont]
    /\ retPtr' = NULL
    /\ retU32' = ToU32(0)
    /\ gx' = <<>>
    /\ IF myFont # NULL
       THEN ReleaseFont(myFont)
       ELSE /\ calls' = <<>>
            /\ UNCHANGED <<ftLibrary, heap>>
    /\ UNCHANGED status

(* ------------------------- the text functions ------------------------- *)

\* A text function returns: the face keeps the pixel size the call gave it,
\* the points are GX's, the width is returned.
Return(op, x, y, myFont, text, fontSize, color, r) ==
    /\ status = "running"
    /\ last' = [op |-> op, x |-> x, y |-> y, myFont |-> myFont, font |-> Font(myFont),
                text |-> text, fontSize |-> fontSize, color |-> color]
    /\ ftLibrary' = IF myFont = NULL THEN ftLibrary
                    ELSE [ftLibrary EXCEPT ![heap[myFont].face] = r.face]
    /\ retU32' = r.ret
    /\ gx' = r.gx
    /\ retPtr' = NULL
    /\ calls' = <<>>
    /\ UNCHANGED <<heap, status>>

GRRLIB_PrintfTTFW(x, y, myFont, utf32, fontSize, color) ==
    Return("PrintfTTFW", x, y, myFont, utf32, fontSize, color,
           PrintfTTFW(x, y, Font(myFont), utf32, fontSize, color))

GRRLIB_WidthTTFW(myFont, utf32, fontSize) ==
    Return("WidthTTFW", 0, 0, myFont, utf32, fontSize, NoColor,
           WidthTTFW(Font(myFont), utf32, fontSize))

GRRLIB_PrintfTTF(x, y, myFont, string, fontSize, color) ==
    Return("PrintfTTF", x, y, myFont, string, fontSize, color,
           PrintfTTF(x, y, Font(myFont), string, fontSize, color))

GRRLIB_WidthTTF(myFont, string, fontSize) ==
    Return("WidthTTF", 0, 0, myFont, string, fontSize, NoColor,
           WidthTTF(Font(myFont), string, fontSize))

\* DrawBitmap by itself, on a bitmap of the caller's.
DrawBitmapCall(bitmap, offset, top, color) ==
    /\ status = "running"
    /\ last' = [op |-> "DrawBitmap", bitmap |-> bitmap, offset |-> offset,
                top |-> top, color |-> color]
    /\ gx' = DrawBitmap(bitmap, offset, top, R(color), G(color), B(color), A(color))
    /\ UNCHANGED <<ftLibrary, heap, status, retPtr, retU32, calls>>

(* ------------------------------- Next --------------------------------- *)

\* A caller passes NULL or a font it loaded and has not freed.
Fonts == {NULL} \cup LiveHandles

\* Loading and freeing fonts.
NextFont ==
    \/ \E file_base \in FontFiles : GRRLIB_LoadTTF(file_base)
    \/ \E myFont \in Fonts : GRRLIB_FreeTTF(myFont)

\* Printing and measuring.
NextText ==
    \/ \E at \in Origins, myFont \in Fonts, utf32 \in WideTexts,
          fontSize \in FontSizes, color \in Colors :
         GRRLIB_PrintfTTFW(at[1], at[2], myFont, utf32, fontSize, color)
    \/ \E myFont \in Fonts, utf32 \in WideTexts, fontSize \in FontSizes :
         GRRLIB_WidthTTFW(myFont, utf32, fontSize)
    \/ \E at \in Origins, myFont \in Fonts, string \in ByteTexts,
          fontSize \in FontSizes, color \in Colors :
         GRRLIB_PrintfTTF(at[1], at[2], myFont, string, fontSize, color)
    \/ \E myFont \in Fonts, string \in ByteTexts, fontSize \in FontSizes :
         GRRLIB_WidthTTF(myFont, string, fontSize)

NextDraw ==
    \E bitmap \in Bitmaps, offset \in Offsets, top \in Tops, color \in DrawColors :
        DrawBitmapCall(bitmap, offset, top, color)

Next == NextFont \/ NextText

\* The whole module.
Spec == Init /\ [][Next]_vars

\* The font functions alone.
SpecFont == Init /\ [][NextFont]_vars

\* The state once a first GRRLIB_LoadTTF has returned a font.
InitText ==
    \E file_base \in {f \in FontFiles : IsFont(f)} :
        /\ ftLibrary = [f \in FaceIds |-> IF f = 1
                          THEN [live |-> TRUE, file |-> file_base, size |-> 0]
                          ELSE NoFace]
        /\ heap = [h \in Handles |-> IF h = 1 THEN NewWrapper(file_base, 1) ELSE NoWrapper]
        /\ status = "running"
        /\ last = [op |-> "LoadTTF", file_base |-> file_base]
        /\ retPtr = 1
        /\ retU32 = ToU32(0)
        /\ gx = <<>>
        /\ calls = <<Call("FT_New_Memory_Face", 1), Call("malloc", 1)>>

\* The text functions, on a font that was loaded.
SpecText == InitText /\ [][NextText]_vars

\* DrawBitmap alone.
SpecDraw == Init /\ [][NextDraw]_vars

(* ------------------------------ claims -------------------------------- *)

WidthOps == {"WidthTTFW", "WidthTTF"}
PrintOps == {"PrintfTTFW", "PrintfTTF"}
WideOps == {"PrintfTTFW", "WidthTTFW"}
ByteOps == {"PrintfTTF", "WidthTTF"}

\* C1: measuring draws nothing: when GRRLIB_WidthTTFW or GRRLIB_WidthTTF
\* returns, it has sent no point to GX, whatever the font, the text and the
\* size.
MeasuringDrawsNothing ==
    last.op \in WidthOps => gx = <<>>

\* A text was measured whose glyphs have pixels: printing it on the same
\* font would have sent points, and measuring it returned a width.
MeasuredAVisibleText ==
    /\ last.op = "WidthTTFW"
    /\ ~last.font.null
    /\ retU32 # ToU32(0)
    /\ Len(PrintfTTFW(0, 0, last.font, last.text, last.fontSize, NoColor).gx) >= 3

\* C2: the width printing returns is the width measuring returns: what a
\* text function returned is what GRRLIB_WidthTTFW (GRRLIB_WidthTTF for the
\* byte functions) returns, and what GRRLIB_PrintfTTFW (GRRLIB_PrintfTTF)
\* returns at every corner and in every colour, for the same text and size
\* on the font as it was.
PrintedWidthIsMeasuredWidth ==
    /\ last.op \in WideOps =>
         /\ retU32 = WidthTTFW(last.font, last.text, last.fontSize).ret
         /\ \A at \in Origins, color \in Colors :
              retU32 = PrintfTTFW(at[1], at[2], last.font, last.text,
                                  last.fontSize, color).ret
    /\ last.op \in ByteOps =>
         /\ retU32 = WidthTTF(last.font, last.text, last.fontSize).ret
         /\ \A at \in Origins, color \in Colors :
              retU32 = PrintfTTF(at[1], at[2], last.font, last.text,
                                 last.fontSize, color).ret

\* A kerned text of two glyphs was printed away from (0, 0): points were
\* sent and a width was returned.
PrintedAKernedText ==
    /\ last.op = "PrintfTTFW"
    /\ last.font.kerning
    /\ last.text = Str(<<65, 86>>)
    /\ last.x # 0
    /\ Len(gx) = 4
    /\ retU32 # ToU32(0)

\* C3: (x, y) is the upper-left corner of the printed text: no point that
\* GRRLIB_PrintfTTFW or GRRLIB_PrintfTTF sent lies left of x or above y.
PointsRightOfAndBelowCorner ==
    last.op \in PrintOps =>
        \A k \in 1..Len(gx) : gx[k].x >= last.x /\ gx[k].y >= last.y

\* C4: GRRLIB_LoadTTF returns: NULL and nothing allocated when the face
\* could not be created, else NULL or a wrapper that holds the face just
\* created and whether that face has kerning.
LoadReturnsFontOrNull ==
    last.op = "LoadTTF" =>
        /\ status = "running"
        /\ IF calls[1].arg = NULL
           THEN /\ Len(calls) = 1
                /\ retPtr = NULL
           ELSE retPtr # NULL =>
                  /\ heap[retPtr] = [live |-> TRUE, face |-> calls[1].arg,
                                     kerning |-> FT_HAS_KERNING(last.file_base)]
                  /\ ftLibrary[calls[1].arg].live
                  /\ ftLibrary[calls[1].arg].file = last.file_base

\* C5: GRRLIB_FreeTTF(NULL) does nothing; GRRLIB_FreeTTF of a font calls
\* FT_Done_Face on its face and then free on the wrapper, once each and
\* nothing else, after which both are gone and every other wrapper and
\* every other face of the library is as it was.
FreeReleasesOnlyItsFont ==
    [][last'.op = "FreeTTF" =>
         IF last'.myFont = NULL
         THEN /\ calls' = <<>>
              /\ UNCHANGED <<ftLibrary, heap, status>>
         ELSE LET myFont == last'.myFont
                  Face == heap[myFont].face
              IN  /\ calls' = <<Call("FT_Done_Face", Face), Call("free", myFont)>>
                  /\ heap[myFont].live /\ ~heap'[myFont].live
                  /\ ftLibrary[Face].live /\ ~ftLibrary'[Face].live
                  /\ \A h \in Handles \ {myFont} : heap'[h] = heap[h]
                  /\ \A f \in FaceIds \ {Face} : ftLibrary'[f] = ftLibrary[f]
                  /\ UNCHANGED status]_vars

\* A font was freed while another was loaded.
FreedOneOfTwoFonts ==
    /\ last.op = "FreeTTF"
    /\ last.myFont # NULL
    /\ calls # <<>>
    /\ LiveHandles # {}

\* C6: DrawBitmap sends width * rows points, one for each pixel (p, q) of
\* the bitmap, at (offset + p, top + q, 0), in the colour asked for, with
\* alpha max(0, buffer[q * width + p] - (255 - cA)), which is a byte no
\* greater than the pixel's coverage nor than cA; an empty bitmap sends none.
DrawBitmapSendsEachPixelOnce ==
    last.op = "DrawBitmap" =>
        LET bitmap == last.bitmap
            cA == last.color[4]
            coverage(p, q) == bitmap.buffer[q * bitmap.width + p + 1]
            expected(p, q) == IF coverage(p, q) - (255 - cA) > 0
                              THEN coverage(p, q) - (255 - cA) ELSE 0
            at(p, q) == {k \in 1..Len(gx) : /\ gx[k].x = last.offset + p
                                            /\ gx[k].y = last.top + q}
        IN  /\ Len(gx) = bitmap.width * bitmap.rows
            /\ (bitmap.width = 0 \/ bitmap.rows = 0) => gx = <<>>
            /\ \A p \in 0..(bitmap.width - 1), q \in 0..(bitmap.rows - 1) :
                 /\ Cardinality(at(p, q)) = 1
                 /\ \A k \in at(p, q) :
                      /\ gx[k].z = 0
                      /\ <<gx[k].r, gx[k].g, gx[k].b>> =
                            <<last.color[1], last.color[2], last.color[3]>>
                      /\ gx[k].a = expected(p, q)
                      /\ gx[k].a \in 0..255
                      /\ gx[k].a <= coverage(p, q)
                      /\ gx[k].a <= cA

\* A bitmap of several rows and columns was drawn in a translucent colour:
\* some pixel's alpha was cut to 0 though it is covered, another's was not.
DrewATranslucentBitmap ==
    /\ last.op = "DrawBitmap"
    /\ last.bitmap.width >= 2 /\ last.bitmap.rows >= 2
    /\ last.color[4] \notin {0, 255}
    /\ \E k \in 1..Len(gx) : gx[k].a = 0
    /\ \E k \in 1..Len(gx) : gx[k].a > 0
    /\ \A k \in 1..Len(last.bitmap.buffer) : last.bitmap.buffer[k] > 0

\* C7: the faces of the library are the faces of the fonts the caller
\* holds: no face is live that no live wrapper holds, and every live
\* wrapper's face is live.
FacesAreTheFontsFaces ==
    LiveFaces = {heap[h].face : h \in LiveHandles}

====
